---- MODULE Spec2Model ----
(***************************************************************************)
(* A model of mva_parser.py: the conversion of MVA sector polygons (CSV    *)
(* rows with WKT geometry and two altitude columns) to Topsky map text.    *)
(*                                                                         *)
(* Numbers.  A Python float is modelled as an exact rational [n, d] with   *)
(* d > 0; texts are sequences of one-character strings, so that float(),   *)
(* str() and the f-string formats are computed digit by digit.             *)
(***************************************************************************)
EXTENDS Integers, Sequences, FiniteSets, TLC

VARIABLES
    call,   \* the function under examination and its arguments
    ret,    \* what the call returned (or raised)
    pc,     \* "call": not yet applied, "return": applied; in between, the
            \* place convert_csv_to_topsky has reached
    locals, \* the local variables of convert_csv_to_topsky
    output_file \* the output file: the strings written to it, in order

vars == <<call, ret, pc, locals, output_file>>

Pending == [tag |-> "pending"]

\* the locals and the file of a call that is not convert_csv_to_topsky
NoLocals == [i |-> 0]

Idle == locals = NoLocals /\ output_file = <<>>

(***************************************************************************)
(* Bounds of the input domains                                             *)
(***************************************************************************)
\* decimal_to_dms: inputs are multiples of 1/(3600*SubSec) degree
SubSec == 4
\* decimal_to_dms: whole degrees 0..MaxDeg (and the last degree of the axis)
MaxDeg == 1
\* format_altitude: altitude texts of up to MaxAltLen characters
MaxAltLen == 4
\* parse_geometry: rings of up to MaxPairs coordinate-pair tokens
MaxPairs == 4
\* generate_line_entries: up to MaxPolys polygons of up to MaxLineVerts vertices
MaxPolys == 2
MaxLineVerts == 3
\* convert_csv_to_topsky: CSV files of up to MaxRows rows
MaxRows == 2
\* calculate_centroid: polygons with vertices on the grid 0..GridMax squared
GridMax == 3

(***************************************************************************)
(* Program constants                                                       *)
(***************************************************************************)
\* line 192: for i in range(10)
MaxIterations == 10
\* line 280: if i < 5, the rows whose values are printed
DebugRows == 5

(***************************************************************************)
(* Arithmetic and text helpers                                             *)
(***************************************************************************)
Abs(x) == IF x < 0 THEN -x ELSE x

Rat(n, d) == [n |-> n, d |-> d]

Digits == <<"0", "1", "2", "3", "4", "5", "6", "7", "8", "9">>

IsDigit(c) == \E k \in 1..10 : Digits[k] = c

DigitVal(c) == (CHOOSE k \in 1..10 : Digits[k] = c) - 1

RECURSIVE NatToStr(_)
\* str(n) / format "d" of a natural number: its decimal digits
NatToStr(n) ==
    IF n < 10 THEN <<Digits[n + 1]>>
    ELSE NatToStr(n \div 10) \o <<Digits[(n % 10) + 1]>>

RECURSIVE ZeroPad(_, _)
\* the 0Nd format: zeros on the left up to a minimum width
ZeroPad(s, width) == IF Len(s) >= width THEN s ELSE ZeroPad(<<"0">> \o s, width)

\* the first position of character c in s, or 0
IndexOf(s, c) ==
    IF \E k \in 1..Len(s) : s[k] = c
    THEN CHOOSE k \in 1..Len(s) : s[k] = c /\ \A j \in 1..(k - 1) : s[j] # c
    ELSE 0

RECURSIVE SplitOn(_, _)
\* str.split(sep) for a one-character separator
SplitOn(s, sep) ==
    LET k == IndexOf(s, sep)
    IN  IF k = 0 THEN <<s>>
        ELSE <<SubSeq(s, 1, k - 1)>> \o SplitOn(SubSeq(s, k + 1, Len(s)), sep)

RECURSIVE StrToNat(_)
\* the natural number a non-empty sequence of digits denotes
StrToNat(s) ==
    IF Len(s) = 0 THEN 0
    ELSE 10 * StrToNat(SubSeq(s, 1, Len(s) - 1)) + DigitVal(s[Len(s)])

AllDigits(s) == \A k \in 1..Len(s) : IsDigit(s[k])

\* math.floor of a non-negative rational
Floor(n, d) == n \div d

\* Python's round() of a non-negative rational: to nearest, ties to even
Round(n, d) ==
    LET q == n \div d
        r == n % d
    IN  IF 2 * r < d THEN q
        ELSE IF 2 * r > d THEN q + 1
        ELSE IF q % 2 = 0 THEN q ELSE q + 1

(***************************************************************************)
(* decimal_to_dms                                                          *)
(***************************************************************************)
\* lines 88-92: degrees, minutes and rounded seconds before any carry
SplitDms(decimal_deg) ==
    LET a               == Abs(decimal_deg.n)
        d               == decimal_deg.d
        degrees         == Floor(a, d)
        decimal_minutes == (a - degrees * d) * 60
        minutes         == Floor(decimal_minutes, d)
        decimal_seconds == (decimal_minutes - minutes * d) * 60
        seconds         == Round(decimal_seconds, d)
    IN  [degrees |-> degrees, minutes |-> minutes, seconds |-> seconds]

CarrySeconds_lost(t) ==
    IF t.seconds = 60 THEN [t EXCEPT !.seconds = 0] ELSE t

\* lines 95-97
CarrySeconds(t) ==
    IF t.seconds = 60
    THEN [t EXCEPT !.seconds = 0, !.minutes = t.minutes + 1]
    ELSE t

CarryMinutes_skipped(t) == t

\* lines 98-100
CarryMinutes(t) ==
    IF t.minutes = 60
    THEN [t EXCEPT !.minutes = 0, !.degrees = t.degrees + 1]
    ELSE t

\* lines 103-106
DirectionPrefix(is_negative, is_latitude) ==
    IF is_latitude
    THEN (IF is_negative THEN "S" ELSE "N")
    ELSE (IF is_negative THEN "W" ELSE "E")

\* line 109: f"{prefix}{degrees:03d}.{minutes:02d}.{seconds:02d}.000"
FormatDms(prefix, t) ==
    <<prefix>> \o ZeroPad(NatToStr(t.degrees), 3) \o <<".">>
               \o ZeroPad(NatToStr(t.minutes), 2) \o <<".">>
               \o ZeroPad(NatToStr(t.seconds), 2) \o <<".", "0", "0", "0">>

decimal_to_dms(decimal_deg, is_latitude) ==
    LET is_negative == decimal_deg.n < 0
        t           == CarryMinutes(CarrySeconds(SplitDms(decimal_deg)))
    IN  FormatDms(DirectionPrefix(is_negative, is_latitude), t)

(***************************************************************************)
(* float() and int() of Python, for texts of sign, digits, one point and   *)
(* the words inf, infinity and nan (lower case, no exponent, no blanks)    *)
(***************************************************************************)
None == [tag |-> "None"]

Str(chars) == [tag |-> "str", val |-> chars]

Raise(exc) == [tag |-> "raise", exc |-> exc]

RECURSIVE Pow10(_)
Pow10(k) == IF k = 0 THEN 1 ELSE 10 * Pow10(k - 1)

RECURSIVE Gcd(_, _)
Gcd(a, b) == IF b = 0 THEN a ELSE Gcd(b, a % b)

\* the rational in lowest terms
Reduce(n, d) == LET g == Gcd(Abs(n), d) IN Rat(n \div g, d \div g)

\* the value of a finite float
FloatValue(f) ==
    Reduce((IF f.neg THEN -1 ELSE 1) * (f.ip * f.fd + f.fn), f.fd)

\* float(x): a float value, or the exception float() raises
PyFloat(x) ==
    IF x.tag # "str" THEN Raise("TypeError")
    ELSE
    LET s      == x.val
        signed == Len(s) > 0 /\ s[1] \in {"-", "+"}
        neg    == Len(s) > 0 /\ s[1] = "-"
        body   == IF signed THEN Tail(s) ELSE s
        parts  == SplitOn(body, ".")
    IN  IF body \in {<<"i", "n", "f">>, <<"i", "n", "f", "i", "n", "i", "t", "y">>}
        THEN [tag |-> "float", kind |-> "inf", neg |-> neg]
        ELSE IF body = <<"n", "a", "n">>
        THEN [tag |-> "float", kind |-> "nan", neg |-> neg]
        ELSE IF /\ Len(parts) <= 2
                /\ \A k \in 1..Len(parts) : AllDigits(parts[k])
                /\ \E k \in 1..Len(parts) : Len(parts[k]) > 0
        THEN LET frac == IF Len(parts) = 2 THEN parts[2] ELSE <<>>
             IN  [tag |-> "float", kind |-> "finite", neg |-> neg,
                  ip |-> StrToNat(parts[1]),
                  fn |-> StrToNat(frac), fd |-> Pow10(Len(frac))]
        ELSE Raise("ValueError")

\* int(f) of a float: truncation toward zero; infinity and NaN raise
PyInt(f) ==
    IF f.kind = "inf" THEN Raise("OverflowError")
    ELSE IF f.kind = "nan" THEN Raise("ValueError")
    ELSE [tag |-> "int", val |-> IF f.neg THEN -f.ip ELSE f.ip]

(***************************************************************************)
(* format_altitude                                                         *)
(***************************************************************************)
\* line 130: except (ValueError, TypeError) returns None, anything else
\* leaves the function as an exception
AltitudeExcept(exc) ==
    IF exc \in {"ValueError", "TypeError"} THEN None ELSE Raise(exc)

format_altitude(altitude) ==
    IF altitude.tag = "None" \/ (altitude.tag = "str" /\ altitude.val = <<>>)
    THEN None
    ELSE LET f == PyFloat(altitude)
         IN  IF f.tag = "raise" THEN AltitudeExcept(f.exc)
             ELSE LET alt_int == PyInt(f)
                  IN  IF alt_int.tag = "raise" THEN AltitudeExcept(alt_int.exc)
                      ELSE IF alt_int.val <= 0 THEN None
                      ELSE Str(NatToStr(alt_int.val \div 100))

\* truthiness of a value that is None or a str
Truthy(x) == x.tag = "str" /\ x.val # <<>>

(***************************************************************************)
(* parse_geometry                                                          *)
(***************************************************************************)
IsSpace(c) == c \in {" ", "\t"}

RECURSIVE SplitWs(_)
\* str.split() without arguments: the maximal runs of non-blank characters
\* (this also covers the strip() before it)
SplitWs(s) ==
    IF Len(s) = 0 THEN <<>>
    ELSE IF IsSpace(s[1]) THEN SplitWs(Tail(s))
    ELSE LET stop == IF \E k \in 1..Len(s) : IsSpace(s[k])
                     THEN CHOOSE k \in 1..Len(s) :
                            IsSpace(s[k]) /\ \A j \in 1..(k - 1) : ~IsSpace(s[j])
                     ELSE Len(s) + 1
         IN  <<SubSeq(s, 1, stop - 1)>> \o SplitWs(SubSeq(s, stop, Len(s)))

\* whether the characters of word stand in s from position i on
StartsAt(s, i, word) ==
    /\ i >= 1
    /\ i + Len(word) - 1 <= Len(s)
    /\ \A k \in 1..Len(word) : s[i + k - 1] = word[k]

\* the first position from i on that holds no blank (the end of \s*)
SkipSpaces(s, i) ==
    CHOOSE j \in i..(Len(s) + 1) :
        /\ \A k \in i..(j - 1) : IsSpace(s[k])
        /\ (j = Len(s) + 1 \/ ~IsSpace(s[j]))

\* the positions e of a "))" that closes content opened at position c:
\* (.*?) matches no line break
ClosingAt(s, c) ==
    { e \in c..Len(s) : StartsAt(s, e, <<")", ")">>)
                        /\ \A k \in c..(e - 1) : s[k] # "\n" }

Min(S) == CHOOSE x \in S : \A y \in S : x <= y

OpenParens == <<"(", "(">>

PolygonWord == <<"P", "O", "L", "Y", "G", "O", "N">>

\* re.search of  keyword \s* \(\( (.*?) \)\)  in s: the positions
\* <<first, last>> of the group of the leftmost match (the shortest from
\* that start), or <<0, 0>> when nothing matches
SearchDoubleParens(s, keyword) ==
    LET Content(i) == SkipSpaces(s, i + Len(keyword)) + 2
        Matches(i) == /\ StartsAt(s, i, keyword)
                      /\ StartsAt(s, Content(i) - 2, OpenParens)
                      /\ ClosingAt(s, Content(i)) # {}
        starts     == { i \in 1..Len(s) : Matches(i) }
    IN  IF starts = {} THEN <<0, 0>>
        ELSE LET i == Min(starts)
             IN  <<Content(i), Min(ClosingAt(s, Content(i))) - 1>>

\* lines 44-54: the coordinate text, or no match
ExtractCoordStr(s) ==
    LET poly_match  == SearchDoubleParens(s, PolygonWord)
        other_match == SearchDoubleParens(s, <<>>)
    IN  IF poly_match # <<0, 0>>
        THEN Str(SubSeq(s, poly_match[1], poly_match[2]))
        ELSE IF other_match # <<0, 0>>
        THEN Str(SubSeq(s, other_match[1], other_match[2]))
        ELSE None

InRange_latOnly(lon, lat) ==
    /\ lon.kind = "finite" /\ lat.kind = "finite"
    /\ Abs(FloatValue(lat).n) <= 90 * FloatValue(lat).d

\* line 65: -180 <= lon <= 180 and -90 <= lat <= 90 (false for NaN and
\* for an infinity)
InRange(lon, lat) ==
    /\ lon.kind = "finite" /\ lat.kind = "finite"
    /\ Abs(FloatValue(lon).n) <= 180 * FloatValue(lon).d
    /\ Abs(FloatValue(lat).n) <= 90 * FloatValue(lat).d

\* lines 60-68: what one pair token appends to coords
PairCoords(pair) ==
    LET parts == SplitWs(pair)
    IN  IF Len(parts) >= 2
        THEN LET lon == PyFloat(Str(parts[1]))
                 lat == PyFloat(Str(parts[2]))
             IN  IF lon.tag = "raise" \/ lat.tag = "raise" THEN <<>>
                 ELSE IF InRange(lon, lat)
                 THEN << <<FloatValue(lat), FloatValue(lon)>> >>
                 ELSE <<>>
        ELSE <<>>

RECURSIVE CollectCoords(_)
\* lines 58-68: the loop over the pair tokens
CollectCoords(pairs) ==
    IF pairs = <<>> THEN <<>>
    ELSE PairCoords(Head(pairs)) \o CollectCoords(Tail(pairs))

\* lines 70-74
AtLeastThree(coords) == IF Len(coords) < 3 THEN <<>> ELSE coords

parse_geometry(geometry_str) ==
    IF geometry_str.tag # "str" \/ geometry_str.val = <<>> THEN <<>>
    ELSE LET coord_str == ExtractCoordStr(geometry_str.val)
         IN  IF coord_str.tag = "None" THEN <<>>
             ELSE AtLeastThree(CollectCoords(SplitOn(coord_str.val, ",")))

(***************************************************************************)
(* generate_line_entries                                                   *)
(***************************************************************************)
NextIndex_nowrap(i, n) == IF i + 1 < n THEN i + 1 ELSE i

\* line 149: (i + 1) % len(coords), for i counted from 0
NextIndex(i, n) == (i + 1) % n

\* lines 148-158: the LINE entry of edge i (counted from 0)
LineEntry(coords, i) ==
    LET p1 == coords[i + 1]
        p2 == coords[NextIndex(i, Len(coords)) + 1]
    IN  <<"L", "I", "N", "E", ":">>
        \o decimal_to_dms(p1[1], TRUE) \o <<":">> \o decimal_to_dms(p1[2], FALSE)
        \o <<":">>
        \o decimal_to_dms(p2[1], TRUE) \o <<":">> \o decimal_to_dms(p2[2], FALSE)

RECURSIVE PolygonLinesFrom(_, _)
\* lines 147-159: the loop over range(len(coords)), from index i on
PolygonLinesFrom(coords, i) ==
    IF i >= Len(coords) THEN <<>>
    ELSE <<LineEntry(coords, i)>> \o PolygonLinesFrom(coords, i + 1)

RECURSIVE generate_line_entries(_)
generate_line_entries(polygons) ==
    IF polygons = <<>> THEN <<>>
    ELSE LET coords == Head(polygons).coords
         IN  (IF Len(coords) < 3 THEN <<>> ELSE PolygonLinesFrom(coords, 0))
             \o generate_line_entries(Tail(polygons))

(***************************************************************************)
(* The geometry library (shapely): polygons, points, centroid, contains    *)
(* and representative_point.  A point is [x, y, d], the coordinates        *)
(* (x/d, y/d) with x the longitude and y the latitude.  A polygon is       *)
(* [pts, scale]: integer vertices <<X, Y>> = scale * (lon, lat).           *)
(***************************************************************************)
Gcd3(a, b, c) == Gcd(Gcd(Abs(a), Abs(b)), Abs(c))

\* a point in lowest terms
Norm(x, y, d) == LET g == Gcd3(x, y, d) IN [x |-> x \div g, y |-> y \div g, d |-> d \div g]

Lcm(a, b) == (a \div Gcd(a, b)) * b

RECURSIVE CommonDenominator(_)
CommonDenominator(coords) ==
    IF coords = <<>> THEN 1
    ELSE Lcm(Lcm(Head(coords)[1].d, Head(coords)[2].d), CommonDenominator(Tail(coords)))

\* line 175: Polygon([(lon, lat) for lat, lon in coords])
Polygon(coords) ==
    LET scale == CommonDenominator(coords)
    IN  [pts   |-> [i \in 1..Len(coords) |->
                      << coords[i][2].n * (scale \div coords[i][2].d),
                         coords[i][1].n * (scale \div coords[i][1].d) >>],
         scale |-> scale]

\* the cyclic successor of index i
Succ(i, n) == IF i = n THEN 1 ELSE i + 1

RECURSIVE SumOver(_, _, _)
\* the sum of F(i) for i in from..to
SumOver(F(_), from, to) == IF from > to THEN 0 ELSE F(from) + SumOver(F, from + 1, to)

\* twice the signed area of the ring
TwiceArea(pts) ==
    LET W(i) == pts[i][1] * pts[Succ(i, Len(pts))][2] - pts[Succ(i, Len(pts))][1] * pts[i][2]
    IN  SumOver(W, 1, Len(pts))

\* polygon.centroid: the area-weighted centroid (the ring has an area)
Centroid(polygon) ==
    LET pts   == polygon.pts
        n     == Len(pts)
        W(i)  == pts[i][1] * pts[Succ(i, n)][2] - pts[Succ(i, n)][1] * pts[i][2]
        CX(i) == (pts[i][1] + pts[Succ(i, n)][1]) * W(i)
        CY(i) == (pts[i][2] + pts[Succ(i, n)][2]) * W(i)
        s     == TwiceArea(pts)
        sign  == IF s < 0 THEN -1 ELSE 1
    IN  Norm(sign * SumOver(CX, 1, n), sign * SumOver(CY, 1, n), sign * 3 * s * polygon.scale)

\* (B - A) x (P - A), in units of 1/P.d, for integer A, B and a point P
Orient(A, B, P) ==
    (B[1] - A[1]) * (P.y - A[2] * P.d) - (B[2] - A[2]) * (P.x - A[1] * P.d)

Between(a, b, v, d) ==
    (IF a < b THEN a ELSE b) * d <= v /\ v <= (IF a < b THEN b ELSE a) * d

OnEdge(A, B, P) ==
    /\ Orient(A, B, P) = 0
    /\ Between(A[1], B[1], P.x, P.d)
    /\ Between(A[2], B[2], P.y, P.d)

\* whether the ray from P towards +x crosses the edge from A to B
RayCrosses(A, B, P) ==
    /\ (A[2] * P.d > P.y) # (B[2] * P.d > P.y)
    /\ IF B[2] > A[2] THEN Orient(A, B, P) > 0 ELSE Orient(A, B, P) < 0

\* polygon.contains(point): the point lies in the interior, not on the boundary
Contains(polygon, point) ==
    LET pts == polygon.pts
        n   == Len(pts)
        P   == Norm(point.x * polygon.scale, point.y * polygon.scale, point.d)
    IN  /\ \A i \in 1..n : ~OnEdge(pts[i], pts[Succ(i, n)], P)
        /\ Cardinality({ i \in 1..n : RayCrosses(pts[i], pts[Succ(i, n)], P) }) % 2 = 1

\* polygon.representative_point() promises a point within the polygon and
\* nothing more: any of these candidates that lies in the interior, the
\* points of the half-unit lattice and their neighbours 1/1024 away
RepresentativePoints(polygon) ==
    LET lo == 0
        hi == 2 * GridMax
    IN  { a \in { Norm(512 * i + sx, 512 * j + sy, 1024) :
                    i \in lo..hi, j \in lo..hi, sx \in {-1, 0, 1}, sy \in {-1, 0, 1} } :
            Contains(polygon, a) }

\* lines 193-195: Point((test_point.x + inside.x) / 2, (test_point.y + inside.y) / 2)
Midpoint(P, Q) ==
    LET g == Gcd(P.d, Q.d)
    IN  Norm(P.x * (Q.d \div g) + Q.x * (P.d \div g),
             P.y * (Q.d \div g) + Q.y * (P.d \div g),
             2 * P.d * (Q.d \div g))

\* [point.y, point.x]: a point as the list [lat, lon]
LatLon(P) == <<Reduce(P.y, P.d), Reduce(P.x, P.d)>>

(***************************************************************************)
(* calculate_centroid.  Its result carries, beside the value returned, the *)
(* return path taken and the candidates the fallback search tested.        *)
(***************************************************************************)
RatAdd(a, b) == Reduce(a.n * b.d + b.n * a.d, a.d * b.d)

RECURSIVE RatSum(_, _)
\* sum(c[k] for c in coords)
RatSum(coords, k) ==
    IF coords = <<>> THEN Rat(0, 1)
    ELSE RatAdd(Head(coords)[k], RatSum(Tail(coords), k))

\* lines 203-205 and 210-212: [lat_sum / len(coords), lon_sum / len(coords)]
VertexMean(coords) ==
    LET lat_sum == RatSum(coords, 1)
        lon_sum == RatSum(coords, 2)
    IN  << Reduce(lat_sum.n, lat_sum.d * Len(coords)),
           Reduce(lon_sum.n, lon_sum.d * Len(coords)) >>

Returned(val, path, tested) ==
    [tag |-> "list", val |-> val, path |-> path, tested |-> tested]

SearchExhausted_none(inside, tested) ==
    [tag |-> "None", val |-> <<>>, path |-> "anchor", tested |-> tested]

SearchExhausted_lastTested(inside, tested) ==
    Returned(LatLon(tested[Len(tested)]), "anchor", tested)

\* line 200: return [inside.y, inside.x]
SearchExhausted(inside, tested) == Returned(LatLon(inside), "anchor", tested)

RECURSIVE FallbackSearch(_, _, _, _, _)
\* lines 192-200: the loop for i in range(10), from iteration i on
FallbackSearch(polygon, test_point, inside, i, tested) ==
    IF i >= MaxIterations THEN SearchExhausted(inside, tested)
    ELSE LET mid == Midpoint(test_point, inside)
         IN  IF Contains(polygon, mid)
             THEN Returned(LatLon(mid), "search", Append(tested, mid))
             ELSE FallbackSearch(polygon, mid, inside, i + 1, Append(tested, mid))

\* env: SHAPELY_AVAILABLE (lines 9-14), whether a library call raises
\* (line 207), and the point representative_point() gives (line 190)
calculate_centroid(coords, env) ==
    IF Len(coords) < 3
    THEN [tag |-> "None", val |-> <<>>, path |-> "short", tested |-> <<>>]
    ELSE IF env.SHAPELY_AVAILABLE
    THEN IF env.fault
         THEN Returned(VertexMean(coords), "except", <<>>)
         ELSE LET polygon  == Polygon(coords)
                  centroid == Centroid(polygon)
              IN  IF Contains(polygon, centroid)
                  THEN Returned(LatLon(centroid), "centroid", <<>>)
                  ELSE FallbackSearch(polygon, centroid, env.inside, 0, <<>>)
    ELSE Returned(VertexMean(coords), "mean", <<>>)

(***************************************************************************)
(* generate_text_entries                                                   *)
(***************************************************************************)
\* lines 225-244: what a polygon with this centroid and this formatted
\* altitude adds to text_entries, or the exception of format_altitude
TextOf(coords, centroid, alt_str) ==
    IF Len(coords) < 3 THEN [tag |-> "list", val |-> <<>>]
    ELSE IF centroid.tag = "None" THEN [tag |-> "list", val |-> <<>>]
    ELSE IF alt_str.tag = "raise" THEN alt_str
    ELSE IF ~Truthy(alt_str) THEN [tag |-> "list", val |-> <<>>]
    ELSE [tag |-> "list", val |->
            << <<"T", "E", "X", "T", ":">>
               \o decimal_to_dms(centroid.val[1], TRUE) \o <<":">>
               \o decimal_to_dms(centroid.val[2], FALSE) \o <<":">>
               \o alt_str.val >>]

\* lines 222-244: one turn of the loop over the polygons
TextEntry(polygon, env) ==
    TextOf(polygon.coords,
           calculate_centroid(polygon.coords, env),
           format_altitude(polygon.altitude))

\* an exception ends the loop, otherwise the entries follow each other
TextsThen(first, rest) ==
    IF first.tag = "raise" THEN first
    ELSE IF rest.tag = "raise" THEN rest
    ELSE [tag |-> "list", val |-> first.val \o rest.val]

RECURSIVE generate_text_entries(_, _)
generate_text_entries(polygons, env) ==
    IF polygons = <<>> THEN [tag |-> "list", val |-> <<>>]
    ELSE TextsThen(TextEntry(Head(polygons), env),
                   generate_text_entries(Tail(polygons), env))

(***************************************************************************)
(* convert_csv_to_topsky                                                   *)
(***************************************************************************)
\* lines 319-322: the default altitude
DefaultAltitude == Str(<<"3", "0">>)

\* lines 308-322: the altitudes of a row after the fallback policy
ResolveAltitudes(warm_alt, cold_alt, warm_alt_fmt, cold_alt_fmt) ==
    LET r1 == IF Truthy(warm_alt_fmt) /\ ~Truthy(cold_alt_fmt)
              THEN [warm_alt |-> warm_alt, cold_alt |-> warm_alt,
                    warm_alt_fmt |-> warm_alt_fmt, cold_alt_fmt |-> warm_alt_fmt]
              ELSE IF Truthy(cold_alt_fmt) /\ ~Truthy(warm_alt_fmt)
              THEN [warm_alt |-> cold_alt, cold_alt |-> cold_alt,
                    warm_alt_fmt |-> cold_alt_fmt, cold_alt_fmt |-> cold_alt_fmt]
              ELSE [warm_alt |-> warm_alt, cold_alt |-> cold_alt,
                    warm_alt_fmt |-> warm_alt_fmt, cold_alt_fmt |-> cold_alt_fmt]
    IN  IF ~Truthy(r1.warm_alt_fmt) /\ ~Truthy(r1.cold_alt_fmt)
        THEN [warm_alt |-> DefaultAltitude, cold_alt |-> DefaultAltitude,
              warm_alt_fmt |-> DefaultAltitude, cold_alt_fmt |-> DefaultAltitude]
        ELSE r1

\* lines 276-336: the turn for a row with these formatted altitudes and
\* these parsed coordinates: "skip" (continue), "raise" (an exception leaves
\* the function) or "append" with the two polygons
RowResult(row, i, warm_alt_fmt, cold_alt_fmt, raised, coords) ==
    IF ~Truthy(row._geometry) THEN [tag |-> "skip"]
    ELSE IF i < DebugRows /\ raised.tag = "raise" THEN raised
    ELSE IF Len(coords) < 3 THEN [tag |-> "skip"]
    ELSE IF raised.tag = "raise" THEN raised
    ELSE LET r == ResolveAltitudes(row.LOWERLIMIT, row.MRVA_COLD,
                                   warm_alt_fmt, cold_alt_fmt)
         IN  [tag  |-> "append",
              warm |-> [coords |-> coords, altitude |-> r.warm_alt],
              cold |-> [coords |-> coords, altitude |-> r.cold_alt]]

\* the exception of the first of the two format_altitude calls that raises
\* one, otherwise the second call's result
FirstRaised(warm_alt_fmt, cold_alt_fmt) ==
    IF warm_alt_fmt.tag = "raise" THEN warm_alt_fmt ELSE cold_alt_fmt

\* lines 267-336: one turn of the loop over the rows, for row number i
\* (counted from 0)
RowOutcome(row, i) ==
    RowResult(row, i,
              format_altitude(row.LOWERLIMIT),
              format_altitude(row.MRVA_COLD),
              FirstRaised(format_altitude(row.LOWERLIMIT), format_altitude(row.MRVA_COLD)),
              parse_geometry(row._geometry))

\* lines 346 and 370: which blocks a mode asks for
BlockWanted(block, topsky_maps) ==
    IF block = "summer" THEN topsky_maps \in {"both", "summer"}
    ELSE topsky_maps \in {"both", "winter"}

BlankWanted_always(topsky_maps) == TRUE

\* line 366
BlankWanted(topsky_maps) == topsky_maps = "both"

\* lines 353-356 and 377-380: the four header writes of a block
HeaderLines(block) ==
    << IF block = "summer"
       THEN <<"M", "A", "P", ":", "M", "V", "A", " ", "G", "e", "r", "m", "a", "n", "y", " ", "S", "u", "m", "m", "e", "r", "\n">>
       ELSE <<"M", "A", "P", ":", "M", "V", "A", " ", "G", "e", "r", "m", "a", "n", "y", " ", "W", "i", "n", "t", "e", "r", "\n">>,
       <<"F", "O", "L", "D", "E", "R", ":", "M", "V", "A", "\n">>,
       <<"C", "O", "L", "O", "R", ":", "g", "r", "e", "e", "n", "\n">>,
       <<"S", "T", "Y", "L", "E", ":", "S", "o", "l", "i", "d", ":", "1", "\n">> >>

\* the geometry library as the conversion finds it: present, raising nothing
\* (the rows' polygons are triangles, which hold their centroid)
DriverEnv == [SHAPELY_AVAILABLE |-> TRUE, fault |-> FALSE, inside |-> [x |-> 0, y |-> 0, d |-> 1]]

ConvertCall == call.fn = "convert_csv_to_topsky"

Bool(b) == [tag |-> "bool", val |-> b]

\* lines 254-261: no data returns False, otherwise the loop starts
ReadCsvFile ==
    /\ pc = "call" /\ ConvertCall
    /\ IF call.data = <<>>
       THEN /\ ret' = Bool(FALSE)
            /\ pc' = "return"
            /\ UNCHANGED locals
       ELSE /\ pc' = "rows"
            /\ locals' = [i |-> 0, warm_polygons |-> <<>>, cold_polygons |-> <<>>,
                          block |-> "none", lines |-> <<>>, texts |-> <<>>, k |-> 0]
            /\ UNCHANGED ret
    /\ UNCHANGED <<call, output_file>>

\* lines 267-336: the next row
ProcessRow ==
    /\ pc = "rows" /\ ConvertCall
    /\ locals.i < Len(call.data)
    /\ LET outcome == RowOutcome(call.data[locals.i + 1], locals.i)
       IN  IF outcome.tag = "raise"
           THEN /\ ret' = outcome
                /\ pc' = "return"
                /\ UNCHANGED locals
           ELSE /\ locals' =
                     IF outcome.tag = "append"
                     THEN [locals EXCEPT !.i = locals.i + 1,
                              !.warm_polygons = Append(locals.warm_polygons, outcome.warm),
                              !.cold_polygons = Append(locals.cold_polygons, outcome.cold)]
                     ELSE [locals EXCEPT !.i = locals.i + 1]
                /\ UNCHANGED <<ret, pc>>
    /\ UNCHANGED <<call, output_file>>

\* line 345: the loop is over and the output file is opened (and emptied)
OpenOutput ==
    /\ pc = "rows" /\ ConvertCall
    /\ locals.i = Len(call.data)
    /\ output_file' = <<>>
    /\ pc' = "summer"
    /\ UNCHANGED <<call, ret, locals>>

\* lines 348-349 and 372-373: the entries of the block are generated; an
\* exception from that is caught on line 401
EnterBlock(block, lines, texts) ==
    IF texts.tag = "raise"
    THEN /\ ret' = Bool(FALSE)
         /\ pc' = "return"
         /\ UNCHANGED locals
    ELSE /\ locals' = [locals EXCEPT !.block = block, !.lines = lines,
                                    !.texts = texts.val, !.k = 0]
         /\ pc' = "header"
         /\ UNCHANGED ret

\* the polygons of a block
PolygonsOf(block) ==
    IF block = "summer" THEN locals.warm_polygons ELSE locals.cold_polygons

\* lines 346-351 and 370-375: a block that is asked for is entered, one
\* that is not is passed over
BeginBlock ==
    /\ pc \in {"summer", "winter"} /\ ConvertCall
    /\ IF BlockWanted(pc, call.topsky_maps)
       THEN EnterBlock(pc, generate_line_entries(PolygonsOf(pc)),
                       generate_text_entries(PolygonsOf(pc), DriverEnv))
       ELSE /\ pc' = IF pc = "summer" THEN "blank" ELSE "finish"
            /\ UNCHANGED <<ret, locals>>
    /\ UNCHANGED <<call, output_file>>

\* lines 353-356 and 377-380: one of the four header writes
WriteHeaderLine ==
    /\ pc = "header" /\ ConvertCall
    /\ output_file' = Append(output_file, HeaderLines(locals.block)[locals.k + 1])
    /\ IF locals.k + 1 = Len(HeaderLines(locals.block))
       THEN pc' = "lines" /\ locals' = [locals EXCEPT !.k = 0]
       ELSE pc' = pc /\ locals' = [locals EXCEPT !.k = locals.k + 1]
    /\ UNCHANGED <<call, ret>>

\* lines 359-360 and 383-384: f.write(f"{line}\n")
WriteLineEntry ==
    /\ pc = "lines" /\ ConvertCall
    /\ locals.k < Len(locals.lines)
    /\ output_file' = Append(output_file, locals.lines[locals.k + 1] \o <<"\n">>)
    /\ locals' = [locals EXCEPT !.k = locals.k + 1]
    /\ UNCHANGED <<call, ret, pc>>

\* the loop over the LINE entries is over
EndLines ==
    /\ pc = "lines" /\ ConvertCall
    /\ locals.k = Len(locals.lines)
    /\ pc' = "texts"
    /\ locals' = [locals EXCEPT !.k = 0]
    /\ UNCHANGED <<call, ret, output_file>>

\* lines 363-364 and 387-388: f.write(f"{text}\n")
WriteTextEntry ==
    /\ pc = "texts" /\ ConvertCall
    /\ locals.k < Len(locals.texts)
    /\ output_file' = Append(output_file, locals.texts[locals.k + 1] \o <<"\n">>)
    /\ locals' = [locals EXCEPT !.k = locals.k + 1]
    /\ UNCHANGED <<call, ret, pc>>

\* the loop over the TEXT entries is over
EndBlock ==
    /\ pc = "texts" /\ ConvertCall
    /\ locals.k = Len(locals.texts)
    /\ pc' = IF locals.block = "summer" THEN "blank" ELSE "finish"
    /\ UNCHANGED <<call, ret, locals, output_file>>

\* lines 366-368: the blank line between the maps
BlankLine ==
    /\ pc = "blank" /\ ConvertCall
    /\ output_file' = IF BlankWanted(call.topsky_maps)
                      THEN Append(output_file, <<"\n">>)
                      ELSE output_file
    /\ pc' = "winter"
    /\ UNCHANGED <<call, ret, locals>>

\* whether the next step opens the file or writes to it
AtWrite ==
    \/ pc = "rows" /\ locals.i = Len(call.data)
    \/ pc = "header"
    \/ pc = "lines" /\ locals.k < Len(locals.lines)
    \/ pc = "texts" /\ locals.k < Len(locals.texts)
    \/ pc = "blank" /\ BlankWanted(call.topsky_maps)

\* lines 401-403: opening the file or a write to it raises, the exception is
\* caught, False is returned
WriteFails ==
    /\ ConvertCall
    /\ AtWrite
    /\ ret' = Bool(FALSE)
    /\ pc' = "return"
    /\ UNCHANGED <<call, locals, output_file>>

\* lines 390-399
Finish ==
    /\ pc = "finish" /\ ConvertCall
    /\ ret' = Bool(TRUE)
    /\ pc' = "return"
    /\ UNCHANGED <<call, locals, output_file>>

(***************************************************************************)
(* Specification of decimal_to_dms over a bounded set of degree values     *)
(***************************************************************************)
DmsUnit == 3600 * SubSec

\* whole degrees near 0 and just below the top of the axis (90 or 180)
DmsDegrees(is_latitude) ==
    (0 .. MaxDeg) \cup {(IF is_latitude THEN 90 ELSE 180) - 1}

\* minutes at both ends and in the middle of the hour
DmsMinutes == {0, 30, 59}

\* magnitudes in units of 1/DmsUnit degree: every sub-second step of the
\* chosen degrees and minutes, and the top of the axis itself
DmsMagnitudes(is_latitude) ==
    { (deg * 60 + min) * 60 * SubSec + q :
        deg \in DmsDegrees(is_latitude), min \in DmsMinutes, q \in 0 .. (60 * SubSec - 1) }
    \cup {(IF is_latitude THEN 90 ELSE 180) * DmsUnit}

DmsInputs ==
    { [fn |-> "decimal_to_dms", decimal_deg |-> Rat(s * m, DmsUnit), is_latitude |-> TRUE] :
        s \in {-1, 1}, m \in DmsMagnitudes(TRUE) }
    \cup
    { [fn |-> "decimal_to_dms", decimal_deg |-> Rat(s * m, DmsUnit), is_latitude |-> FALSE] :
        s \in {-1, 1}, m \in DmsMagnitudes(FALSE) }

InitDms == Idle /\ call \in DmsInputs /\ ret = Pending /\ pc = "call"

CallDecimalToDms ==
    /\ pc = "call"
    /\ call.fn = "decimal_to_dms"
    /\ ret' = [tag |-> "str", val |-> decimal_to_dms(call.decimal_deg, call.is_latitude)]
    /\ pc' = "return"
    /\ UNCHANGED <<call, locals, output_file>>

NextDms == CallDecimalToDms

SpecDms == InitDms /\ [][NextDms]_vars

(***************************************************************************)
(* Specification of format_altitude over None and every short text         *)
(***************************************************************************)
AltChars == {"-", ".", "0", "1", "5", "i", "n", "f", "a"}

TextsUpTo(chars, len) == UNION { [1..k -> chars] : k \in 0..len }

AltitudeInputs ==
    { [fn |-> "format_altitude", altitude |-> a] :
        a \in {None} \cup { Str(t) : t \in TextsUpTo(AltChars, MaxAltLen) } }

InitAlt == Idle /\ call \in AltitudeInputs /\ ret = Pending /\ pc = "call"

CallFormatAltitude ==
    /\ pc = "call"
    /\ call.fn = "format_altitude"
    /\ ret' = format_altitude(call.altitude)
    /\ pc' = "return"
    /\ UNCHANGED <<call, locals, output_file>>

NextAlt == CallFormatAltitude

SpecAlt == InitAlt /\ [][NextAlt]_vars

(***************************************************************************)
(* Specification of parse_geometry, and of the LINE entries made from its  *)
(* result, over rings written with a few kinds of coordinate-pair token    *)
(***************************************************************************)
\* Pair tokens as they stand between the commas, each with what it denotes:
\* whether its two leading components are numbers in range, and then its
\* longitude (first component) and latitude (second component).
PairTokens ==
    { [text |-> <<"0", " ", "0">>,                      valid |-> TRUE,
       lon |-> Rat(0, 1), lat |-> Rat(0, 1)],
      [text |-> <<" ", "1", " ", "0">>,                 valid |-> TRUE,
       lon |-> Rat(1, 1), lat |-> Rat(0, 1)],
      [text |-> <<"1", ".", "5", " ", "2", " ", "7">>,  valid |-> TRUE,
       lon |-> Rat(3, 2), lat |-> Rat(2, 1)],
      [text |-> <<"9", "1", " ", "-", "9", "0">>,       valid |-> TRUE,
       lon |-> Rat(91, 1), lat |-> Rat(-90, 1)],
      [text |-> <<"0", " ", "9", "1">>,                 valid |-> FALSE,
       lon |-> Rat(0, 1), lat |-> Rat(91, 1)],
      [text |-> <<"-", "1", "8", "1", " ", "0">>,       valid |-> FALSE,
       lon |-> Rat(-181, 1), lat |-> Rat(0, 1)],
      [text |-> <<"x", " ", "0">>,                      valid |-> FALSE,
       lon |-> Rat(0, 1), lat |-> Rat(0, 1)],
      [text |-> <<"5">>,                                valid |-> FALSE,
       lon |-> Rat(5, 1), lat |-> Rat(0, 1)],
      [text |-> <<"n", "a", "n", "\t", "0">>,           valid |-> FALSE,
       lon |-> Rat(0, 1), lat |-> Rat(0, 1)] }

RECURSIVE JoinTexts(_)
\* the tokens' texts with a comma between each two
JoinTexts(tokens) ==
    IF tokens = <<>> THEN <<>>
    ELSE IF Len(tokens) = 1 THEN tokens[1].text
    ELSE tokens[1].text \o <<",">> \o JoinTexts(Tail(tokens))

\* what stands before the coordinate text
Wrappers ==
    { PolygonWord \o OpenParens,
      PolygonWord \o <<" ">> \o OpenParens,
      <<"p", "o", "l", "y", ";">> \o OpenParens }

RingInputs ==
    { [fn |-> "parse_geometry", pairs |-> ps,
       geometry_str |-> Str(w \o JoinTexts(ps) \o <<")", ")">>)] :
        w \in Wrappers, ps \in UNION { [1..k -> PairTokens] : k \in 0..MaxPairs } }

\* inputs that hold no double-parenthesised content
OtherInputs ==
    { [fn |-> "parse_geometry", pairs |-> <<>>, geometry_str |-> g] :
        g \in { None, [tag |-> "other"], Str(<<>>),
                Str(<<"n", "o", "t", " ", "g", "e", "o">>),
                Str(PolygonWord \o <<"(", "0", " ", "0", ")">>) } }

InitGeom == Idle /\ call \in (RingInputs \cup OtherInputs) /\ ret = Pending /\ pc = "call"

CallParseGeometry ==
    /\ pc = "call"
    /\ call.fn = "parse_geometry"
    /\ ret' = [tag |-> "list", val |-> parse_geometry(call.geometry_str)]
    /\ pc' = "parsed"
    /\ UNCHANGED <<call, locals, output_file>>

\* convert_csv_to_topsky, lines 296-298, 325-328 and 348: a row whose
\* geometry gave coordinates becomes a polygon, and the polygons' LINE
\* entries are generated
LinesOfParsedRow ==
    /\ pc = "parsed"
    /\ Len(ret.val) >= 3
    /\ call' = [fn |-> "generate_line_entries",
                polygons |-> << [coords |-> ret.val] >>]
    /\ ret' = [tag |-> "list", val |-> generate_line_entries(call'.polygons)]
    /\ pc' = "return"
    /\ UNCHANGED <<locals, output_file>>

NextGeom == CallParseGeometry \/ LinesOfParsedRow

SpecGeom == InitGeom /\ [][NextGeom]_vars

(***************************************************************************)
(* Specification of generate_line_entries over lists of polygons cut from  *)
(* a ring of distinct vertices                                             *)
(***************************************************************************)
\* vertex k of the ring: latitude k + 1/2 degrees north, longitude 10 + k west
RingVertex(k) == <<Rat(2 * k + 1, 2), Rat(-(10 + k), 1)>>

\* the polygons: every run of 0..MaxLineVerts consecutive ring vertices
LinePolygons ==
    { [coords |-> [i \in 1..len |-> RingVertex(first + i)]] :
        first \in 0..MaxLineVerts, len \in 0..MaxLineVerts }

LineInputs ==
    { [fn |-> "generate_line_entries", polygons |-> ps] :
        ps \in UNION { [1..k -> LinePolygons] : k \in 0..MaxPolys } }

InitLines == Idle /\ call \in LineInputs /\ ret = Pending /\ pc = "call"

CallGenerateLineEntries ==
    /\ pc = "call"
    /\ call.fn = "generate_line_entries"
    /\ ret' = [tag |-> "list", val |-> generate_line_entries(call.polygons)]
    /\ pc' = "return"
    /\ UNCHANGED <<call, locals, output_file>>

NextLines == CallGenerateLineEntries

SpecLines == InitLines /\ [][NextLines]_vars

(***************************************************************************)
(* Specification of calculate_centroid over the simple polygons of three   *)
(* and four vertices on the grid, with and without the geometry library    *)
(***************************************************************************)
GridPoints == (0..GridMax) \X (0..GridMax)

PolygonSizes == {3, 4}

\* (b - a) x (c - a) for integer points
Cross(a, b, c) == (b[1] - a[1]) * (c[2] - a[2]) - (b[2] - a[2]) * (c[1] - a[1])

Sign(v) == IF v > 0 THEN 1 ELSE IF v < 0 THEN -1 ELSE 0

\* whether integer point p lies on the closed segment a-b
OnSegment(p, a, b) ==
    /\ Cross(a, b, p) = 0
    /\ Between(a[1], b[1], p[1], 1)
    /\ Between(a[2], b[2], p[2], 1)

\* whether the closed segments a-b and c-d meet
SegmentsMeet(a, b, c, d) ==
    \/ /\ Sign(Cross(a, b, c)) * Sign(Cross(a, b, d)) < 0
       /\ Sign(Cross(c, d, a)) * Sign(Cross(c, d, b)) < 0
    \/ OnSegment(c, a, b) \/ OnSegment(d, a, b)
    \/ OnSegment(a, c, d) \/ OnSegment(b, c, d)

\* a simple polygon: distinct vertices, no edge folding back over the one
\* before it, no two other edges meeting
IsSimple(pts) ==
    LET n == Len(pts)
    IN  /\ \A i, j \in 1..n : i # j => pts[i] # pts[j]
        /\ \A i \in 1..n :
              LET a == pts[i]
                  b == pts[Succ(i, n)]
                  c == pts[Succ(Succ(i, n), n)]
              IN  ~(/\ Cross(a, b, c) = 0
                    /\ (a[1] - b[1]) * (c[1] - b[1]) + (a[2] - b[2]) * (c[2] - b[2]) > 0)
        /\ \A i, j \in 1..n :
              (i < j /\ Succ(i, n) # j /\ Succ(j, n) # i)
              => ~SegmentsMeet(pts[i], pts[Succ(i, n)], pts[j], pts[Succ(j, n)])

PointLess(p, q) == p[1] < q[1] \/ (p[1] = q[1] /\ p[2] < q[2])

\* every simple polygon of the grid, written from its least vertex on
\* (in either direction)
SimplePolygons ==
    { pts \in UNION { [1..n -> GridPoints] : n \in PolygonSizes } :
        /\ \A i \in 2..Len(pts) : PointLess(pts[1], pts[i])
        /\ IsSimple(pts) }

\* the vertices as the list of [lat, lon] the function takes
CoordsOf(pts) == [i \in 1..Len(pts) |-> <<Rat(pts[i][2], 1), Rat(pts[i][1], 1)>>]

CentroidInputs ==
    { [fn |-> "calculate_centroid", coords |-> CoordsOf(pts), SHAPELY_AVAILABLE |-> b] :
        pts \in SimplePolygons, b \in BOOLEAN }

InitCentroid == Idle /\ call \in CentroidInputs /\ ret = Pending /\ pc = "call"

NoPoint == [x |-> 0, y |-> 0, d |-> 1]

\* whether the call reaches line 190 and asks for a representative point
ReachesFallback(coords, shapely, fault) ==
    /\ shapely /\ ~fault
    /\ ~Contains(Polygon(coords), Centroid(Polygon(coords)))

CallCalculateCentroid ==
    /\ pc = "call"
    /\ call.fn = "calculate_centroid"
    /\ \E fault \in BOOLEAN :
         \E inside \in (IF ReachesFallback(call.coords, call.SHAPELY_AVAILABLE, fault)
                         THEN RepresentativePoints(Polygon(call.coords))
                         ELSE {NoPoint}) :
            ret' = calculate_centroid(call.coords,
                      [SHAPELY_AVAILABLE |-> call.SHAPELY_AVAILABLE,
                       fault |-> fault, inside |-> inside])
    /\ pc' = "return"
    /\ UNCHANGED <<call, locals, output_file>>

NextCentroid == CallCalculateCentroid

SpecCentroid == InitCentroid /\ [][NextCentroid]_vars

(***************************************************************************)
(* Specification of convert_csv_to_topsky over short CSV files             *)
(***************************************************************************)
\* a triangle, a text without coordinates, and an empty geometry cell
RowGeometries ==
    { Str(<<"P", "O", "L", "Y", "G", "O", "N", "(", "(", "0", " ", "0", ",", "1", " ", "0", ",", "0", " ", "1", ")", ")">>),
      Str(<<"P", "O", "I", "N", "T", "(", "0", " ", "0", ")">>),
      Str(<<>>) }

WarmTexts == { Str(<<>>), Str(<<"3", "5", "0", "0">>), Str(<<"i", "n", "f">>) }

ColdTexts == { Str(<<>>), Str(<<"2", "5", "0", "0">>) }

Rows ==
    { [_geometry |-> g, LOWERLIMIT |-> w, MRVA_COLD |-> c] :
        g \in RowGeometries, w \in WarmTexts, c \in ColdTexts }

ConvertInputs ==
    { [fn |-> "convert_csv_to_topsky", data |-> d, topsky_maps |-> m] :
        d \in UNION { [1..k -> Rows] : k \in 0..MaxRows },
        m \in {"both", "summer", "winter"} }

InitConvert == Idle /\ call \in ConvertInputs /\ ret = Pending /\ pc = "call"

NextConvert ==
    \/ ReadCsvFile
    \/ ProcessRow
    \/ OpenOutput
    \/ BeginBlock
    \/ WriteHeaderLine
    \/ WriteLineEntry
    \/ EndLines
    \/ WriteTextEntry
    \/ EndBlock
    \/ BlankLine
    \/ WriteFails
    \/ Finish

SpecConvert == InitConvert /\ [][NextConvert]_vars

(***************************************************************************)
(* Claims about decimal_to_dms                                             *)
(***************************************************************************)
DmsReturned == pc = "return" /\ call.fn = "decimal_to_dms"

\* the fields of a token after its direction letter: degrees, minutes,
\* seconds and the sub-second literal
DmsFields(token) == SplitOn(Tail(token), ".")

\* a token read back: direction letter as sign, and whole arc-seconds
\* (3600 * (degrees + minutes/60 + seconds/3600))
ReparseArcSeconds(token) ==
    LET f    == DmsFields(token)
        sign == IF token[1] \in {"S", "W"} THEN -1 ELSE 1
    IN  sign * (StrToNat(f[1]) * 3600 + StrToNat(f[2]) * 60 + StrToNat(f[3]))

\* C2: for every latitude v in [-90, 90], the token decimal_to_dms(v, True)
\* read back (letter as sign, degrees + minutes/60 + seconds/3600) is within
\* one arc-second of v.  With v = n/d and d = 3600*k the distance in units of
\* 1/d degree is |arcseconds*k - n|, and one arc-second is k units.
C2_RoundTripWithinArcSecond ==
    (DmsReturned /\ call.is_latitude
        /\ Abs(call.decimal_deg.n) <= 90 * call.decimal_deg.d)
    => LET k == call.decimal_deg.d \div 3600
       IN  /\ call.decimal_deg.d % 3600 = 0
           /\ Abs(ReparseArcSeconds(ret.val) * k - call.decimal_deg.n) <= k

\* a southern latitude whose seconds rounded up to 60 and were carried
C2_Witness ==
    /\ DmsReturned /\ call.is_latitude
    /\ call.decimal_deg.n < 0
    /\ SplitDms(call.decimal_deg).seconds = 60
    /\ ReparseArcSeconds(ret.val) * (call.decimal_deg.d \div 3600) # call.decimal_deg.n

\* C8: the token's minutes field and seconds field are two digits in 00..59,
\* and the token denotes the same angle as the degrees, minutes and rounded
\* seconds computed before the carries (seconds 60 became a minute, minutes
\* 60 became a degree).
C8_FieldsInRangeAfterCarry ==
    DmsReturned =>
        LET f == DmsFields(ret.val)
            t == SplitDms(call.decimal_deg)
        IN  /\ Len(f) = 4
            /\ Len(f[2]) = 2 /\ AllDigits(f[2]) /\ StrToNat(f[2]) \in 0..59
            /\ Len(f[3]) = 2 /\ AllDigits(f[3]) /\ StrToNat(f[3]) \in 0..59
            /\ AllDigits(f[1])
            /\ StrToNat(f[1]) * 3600 + StrToNat(f[2]) * 60 + StrToNat(f[3])
                 = t.degrees * 3600 + t.minutes * 60 + t.seconds

\* seconds rounded to 60 in minute 59: both carries happened
C8_Witness ==
    /\ DmsReturned
    /\ SplitDms(call.decimal_deg).seconds = 60
    /\ SplitDms(call.decimal_deg).minutes = 59
    /\ DmsFields(ret.val)[2] = <<"0", "0">>
    /\ DmsFields(ret.val)[3] = <<"0", "0">>

(***************************************************************************)
(* Claims about format_altitude                                            *)
(***************************************************************************)
AltReturned == pc = "return" /\ call.fn = "format_altitude"

\* the inputs the claim counts as "no altitude": absent, empty, not a
\* number, a number that is not finite, or a number whose integer part is
\* not positive
NoAltitude(a) ==
    \/ a.tag = "None"
    \/ a.val = <<>>
    \/ PyFloat(a).tag = "raise"
    \/ PyFloat(a).tag = "float" /\ PyFloat(a).kind \in {"inf", "nan"}
    \/ PyFloat(a).tag = "float" /\ PyFloat(a).kind = "finite"
         /\ (PyFloat(a).neg \/ PyFloat(a).ip = 0)

\* C3: for every input that is absent, empty, unparseable, not finite or
\* not positive after truncation, format_altitude returns None and raises
\* nothing.
C3_AbsentWithoutFault ==
    (AltReturned /\ NoAltitude(call.altitude)) => ret.tag = "None"

(***************************************************************************)
(* Claims about parse_geometry and generate_line_entries                   *)
(***************************************************************************)
RECURSIVE ValidVertices(_)
\* the valid tokens of a ring, in order, each as <<latitude, longitude>>
ValidVertices(tokens) ==
    IF tokens = <<>> THEN <<>>
    ELSE (IF Head(tokens).valid THEN << <<Head(tokens).lat, Head(tokens).lon>> >>
          ELSE <<>>)
         \o ValidVertices(Tail(tokens))

LineFields(entry) == SplitOn(entry, ":")

\* a ring as WKT writes it: its vertices differ from each other, except
\* that the last may repeat the first
ProperRing(v) ==
    \A i, j \in 1..Len(v) : (i < j /\ v[i] = v[j]) => (i = 1 /\ j = Len(v))

\* C6: the vertices parse_geometry stores for a ring are distinct, in
\* particular the last is no copy of the first, also for a ring that repeats
\* its first pair as its last; and no LINE entry made from them joins a
\* vertex to itself.
C6_NoClosingDuplicate ==
    /\ (pc = "parsed" /\ ProperRing(ValidVertices(call.pairs))) =>
          \A i, j \in 1..Len(ret.val) : i # j => ret.val[i] # ret.val[j]
    /\ (pc = "return" /\ call.fn = "generate_line_entries"
            /\ ProperRing(call.polygons[1].coords)) =>
          \A k \in 1..Len(ret.val) :
              LET f == LineFields(ret.val[k])
              IN  <<f[2], f[3]>> # <<f[4], f[5]>>

RECURSIVE EntriesBefore(_, _)
\* how many entries the polygons before the k-th one contribute
EntriesBefore(polygons, k) ==
    IF k <= 1 THEN 0
    ELSE EntriesBefore(polygons, k - 1)
         + (IF Len(polygons[k - 1].coords) >= 3 THEN Len(polygons[k - 1].coords) ELSE 0)

\* C4: a polygon of n >= 3 vertices contributes exactly n LINE entries, in
\* vertex order, entry i joining vertex i to vertex (i+1) mod n of the same
\* polygon; a polygon of fewer than 3 vertices contributes none; the list
\* holds nothing else.
C4_OneEntryPerEdge ==
    (pc = "return" /\ call.fn = "generate_line_entries") =>
        LET polygons == call.polygons
            entries  == ret.val
        IN  /\ Len(entries) = EntriesBefore(polygons, Len(polygons) + 1)
            /\ \A k \in 1..Len(polygons) :
                  LET coords == polygons[k].coords
                      n      == Len(coords)
                  IN  n >= 3 =>
                      \A i \in 0..(n - 1) :
                          LET f  == LineFields(entries[EntriesBefore(polygons, k) + i + 1])
                              p1 == coords[i + 1]
                              p2 == coords[IF i = n - 1 THEN 1 ELSE i + 2]
                          IN  f = << <<"L", "I", "N", "E">>,
                                     decimal_to_dms(p1[1], TRUE), decimal_to_dms(p1[2], FALSE),
                                     decimal_to_dms(p2[1], TRUE), decimal_to_dms(p2[2], FALSE) >>

\* two polygons of three vertices, a shorter one between or beside them
C4_Witness ==
    /\ pc = "return" /\ call.fn = "generate_line_entries"
    /\ Len(ret.val) = 6
    /\ \E k \in 1..Len(call.polygons) : Len(call.polygons[k].coords) = 3
    /\ call.polygons[1].coords # call.polygons[Len(call.polygons)].coords

(***************************************************************************)
(* Claims about calculate_centroid                                         *)
(***************************************************************************)
CentroidReturned == pc = "return" /\ call.fn = "calculate_centroid"

\* a [lat, lon] list as a point
PointOf(val) ==
    LET d == Lcm(val[1].d, val[2].d)
    IN  Norm(val[2].n * (d \div val[2].d), val[1].n * (d \div val[1].d), d)

\* containment of a returned value in the polygon of the call
ResultContained ==
    ret.tag = "list" /\ Contains(Polygon(call.coords), PointOf(ret.val))

\* C1 as stated: for every simple polygon of at least 3 vertices the point
\* calculate_centroid returns satisfies containment, on every return path.
C1_EveryPathContained == CentroidReturned => ResultContained

\* C1 as amended: the point returned satisfies containment on the return
\* paths of the geometry-library branch (centroid, search candidate,
\* interior anchor); without the library and after a suppressed fault the
\* function returns the arithmetic mean of the vertices.
C1_LibraryPathsContained ==
    CentroidReturned =>
        /\ ret.path \in {"centroid", "search", "anchor"} => ResultContained
        /\ ret.path \in {"mean", "except"} =>
              (ret.tag = "list" /\ ret.val = VertexMean(call.coords))
        /\ ret.path \in {"centroid", "search", "anchor", "mean", "except"}

\* a polygon whose centroid lies outside it, and a candidate of the search
\* after the first returned
C1_Witness ==
    /\ CentroidReturned
    /\ ret.path = "search"
    /\ Len(ret.tested) > 1
    /\ ResultContained

\* C9: when the centroid is not contained, the search tests at most 10
\* candidates, candidate k the midpoint of candidate k-1 (the centroid for
\* k = 1) and the interior anchor; the first candidate that is contained is
\* returned; if none of the 10 is, the anchor is returned; the result is
\* never "no result".
C9_BoundedBisection ==
    (CentroidReturned /\ ret.path \in {"search", "anchor"}) =>
        LET polygon  == Polygon(call.coords)
            centroid == Centroid(polygon)
            tested   == ret.tested
            n        == Len(tested)
            \* the anchor, recovered from the first candidate: 2*c1 - centroid
            anchor   == Norm(2 * tested[1].x * centroid.d - centroid.x * tested[1].d,
                             2 * tested[1].y * centroid.d - centroid.y * tested[1].d,
                             tested[1].d * centroid.d)
        IN  /\ ~Contains(polygon, centroid)
            /\ n >= 1 /\ n <= 10
            /\ ret.tag = "list"
            /\ Contains(polygon, anchor)
            /\ \A k \in 2..n : tested[k] = Midpoint(tested[k - 1], anchor)
            /\ \A k \in 1..(n - 1) : ~Contains(polygon, tested[k])
            /\ IF Contains(polygon, tested[n])
               THEN ret.val = LatLon(tested[n])
               ELSE n = 10 /\ ret.val = LatLon(anchor)

\* ten candidates were tested, none was contained, the anchor was returned
C9_Witness ==
    /\ CentroidReturned
    /\ ret.path = "anchor"
    /\ Len(ret.tested) = 10
    /\ ~Contains(Polygon(call.coords), ret.tested[10])
    /\ ResultContained

(***************************************************************************)
(* Claims about convert_csv_to_topsky                                      *)
(***************************************************************************)
ConvertReturned(b) == ConvertCall /\ pc = "return" /\ ret = Bool(b)

\* what kind of thing a written string is
KindOf(w) ==
    IF w = HeaderLines("summer")[1] THEN "summer"
    ELSE IF w = HeaderLines("winter")[1] THEN "winter"
    ELSE IF w = HeaderLines("summer")[2] THEN "folder"
    ELSE IF w = HeaderLines("summer")[3] THEN "color"
    ELSE IF w = HeaderLines("summer")[4] THEN "style"
    ELSE IF w = <<"\n">> THEN "blank"
    ELSE IF StartsAt(w, 1, <<"L", "I", "N", "E", ":">>) THEN "line"
    ELSE IF StartsAt(w, 1, <<"T", "E", "X", "T", ":">>) THEN "text"
    ELSE "other"

BadShape == [block |-> "none", at |-> 0]

\* the reader of the shape: at 0 nothing of the block is written, at 1..3
\* that many header lines are, at 4 the header is complete and LINE entries
\* may follow, at 5 a TEXT entry has been written
ShapeStep(q, kind, mode) ==
    IF q.at = 0 /\ kind = q.block THEN [q EXCEPT !.at = 1]
    ELSE IF q.at = 1 /\ kind = "folder" THEN [q EXCEPT !.at = 2]
    ELSE IF q.at = 2 /\ kind = "color" THEN [q EXCEPT !.at = 3]
    ELSE IF q.at = 3 /\ kind = "style" THEN [q EXCEPT !.at = 4]
    ELSE IF q.at = 4 /\ kind = "line" THEN q
    ELSE IF q.at \in {4, 5} /\ kind = "text" THEN [q EXCEPT !.at = 5]
    ELSE IF q.at \in {4, 5} /\ kind = "blank" /\ q.block = "summer" /\ mode = "both"
         THEN [block |-> "winter", at |-> 0]
    ELSE BadShape

RECURSIVE ShapeRun(_, _, _)
ShapeRun(q, written, mode) ==
    IF written = <<>> THEN q
    ELSE ShapeRun(ShapeStep(q, KindOf(Head(written)), mode), Tail(written), mode)

ShapeOf(written, mode) ==
    ShapeRun([block |-> IF mode = "winter" THEN "winter" ELSE "summer", at |-> 0],
             written, mode)

CompleteShape(q, mode) ==
    /\ q.at \in {4, 5}
    /\ q.block = IF mode = "summer" THEN "summer" ELSE "winter"

CountKind(written, kind) ==
    Cardinality({k \in 1..Len(written) : KindOf(written[k]) = kind})

ValidGeometryRow(row) == Len(parse_geometry(row._geometry)) >= 3

RECURSIVE VertexTotal(_)
VertexTotal(rows) ==
    IF rows = <<>> THEN 0
    ELSE Len(parse_geometry(Head(rows)._geometry)) + VertexTotal(Tail(rows))

BlocksOf(mode) == IF mode = "both" THEN 2 ELSE 1

\* C7: what convert_csv_to_topsky has written is at every moment the start
\* of the shape of its mode - in "both" the summer block (the four header
\* lines, then LINE entries, then TEXT entries, no LINE after a TEXT), one
\* blank line, the winter block of the same shape; in "summer" or "winter"
\* the one block and no blank line - and when it returns True the shape is
\* complete, with every LINE and TEXT entry of the valid rows in each block.
C7_WriteShape ==
    ConvertCall =>
        LET q     == ShapeOf(output_file, call.topsky_maps)
            valid == SelectSeq(call.data, ValidGeometryRow)
        IN  /\ q # BadShape
            /\ ConvertReturned(TRUE) =>
                  /\ CompleteShape(q, call.topsky_maps)
                  /\ CountKind(output_file, "blank")
                       = IF call.topsky_maps = "both" THEN 1 ELSE 0
                  /\ CountKind(output_file, "line")
                       = BlocksOf(call.topsky_maps) * VertexTotal(valid)
                  /\ CountKind(output_file, "text")
                       = BlocksOf(call.topsky_maps) * Len(valid)

\* a conversion in mode "both" of two valid rows has returned True
C7_Witness ==
    /\ ConvertReturned(TRUE)
    /\ call.topsky_maps = "both"
    /\ Len(SelectSeq(call.data, ValidGeometryRow)) = 2
    /\ CountKind(output_file, "text") = 4

IsTextEntry(w) == KindOf(w) = "text"

\* the altitude field of a written TEXT entry: what follows its last colon,
\* without the line break
AltitudeToken(w) ==
    LET fields == SplitOn(SubSeq(w, 1, Len(w) - 1), ":")
    IN  fields[Len(fields)]

\* the tokens the fallback policy resolves a row to
ResolvedTokens(row) ==
    LET warm == format_altitude(row.LOWERLIMIT)
        cold == format_altitude(row.MRVA_COLD)
    IN  IF warm = None /\ cold = None
        THEN [warm |-> <<"3", "0">>, cold |-> <<"3", "0">>]
        ELSE IF warm = None THEN [warm |-> cold.val, cold |-> cold.val]
        ELSE IF cold = None THEN [warm |-> warm.val, cold |-> warm.val]
        ELSE [warm |-> warm.val, cold |-> cold.val]

\* C10: when the conversion has returned True, each map's TEXT entry of
\* every row with valid geometry carries the row's resolved altitude token:
\* the other column's token if one column formats to absent, "30" if both do.
C10_TextCarriesResolvedToken ==
    ConvertReturned(TRUE) =>
        LET valid  == SelectSeq(call.data, ValidGeometryRow)
            texts  == SelectSeq(output_file, IsTextEntry)
            mode   == call.topsky_maps
            offset == IF mode = "both" THEN Len(valid) ELSE 0
        IN  /\ Len(texts) = BlocksOf(mode) * Len(valid)
            /\ \A k \in 1..Len(valid) :
                  /\ mode \in {"both", "summer"} =>
                        AltitudeToken(texts[k]) = ResolvedTokens(valid[k]).warm
                  /\ mode \in {"both", "winter"} =>
                        AltitudeToken(texts[offset + k]) = ResolvedTokens(valid[k]).cold

=============================================================================
